---- MODULE Spec2Model ----
(***************************************************************************)
(* Boot-time bootloader check of the KeepKey firmware                      *)
(* (keepkey/local/baremetal/check_bootloader.c).                           *)
(*                                                                         *)
(* check_bootloader() classifies the installed bootloader by its SHA-256   *)
(* digest (check_bootloader_kind), hot-patches the known vulnerable ones   *)
(* (apply_hotpatch) and halts the device on every other outcome.           *)
(*                                                                         *)
(* The model follows the C code call by call: every call the code makes is *)
(* one action, the variable pc is the position in the code, and log is the *)
(* sequence of external calls made so far.                                 *)
(***************************************************************************)
EXTENDS Integers, Sequences, FiniteSets, TLC

VARIABLES
    pc,            \* position in check_bootloader / apply_hotpatch
    hash_len,      \* value returned by memory_bootloader_hash (-1: not called yet)
    bl_hash,       \* static uint8_t bl_hash[SHA256_DIGEST_LENGTH]
    kind,          \* enum BL_Kind kind, local of check_bootloader
    flash,         \* bytes of flash around hotpatch_addr, by address
    flash_locked,  \* FLASH_CR lock: set by flash_lock, cleared by flash_unlock
    sectors_ro,    \* write protection of the bootloader sectors, lifted by memory_unlock
    status_flags,  \* flash error flag raised by a failing program operation
    patched,       \* value returned by apply_hotpatch
    log,           \* external calls made so far, in order
    err_reported,  \* history: flash_program raised the error flag in this run
    first_call     \* history: result and flash at the return of an earlier
                   \* apply_hotpatch, <<>> when there was none

vars == <<pc, hash_len, bl_hash, kind, flash, flash_locked, sectors_ro,
          status_flags, patched, log, err_reported, first_call>>

-----------------------------------------------------------------------------
(* Bounds of the model.                                                    *)

\* Flash bytes modelled on each side of the patch region.
Margin == 1

\* Largest number of single bytes of one flash_program call that fail to
\* program (besides the outcome in which every byte fails).
MaxFail == 1

-----------------------------------------------------------------------------
(* Program constants.                                                      *)

SHA256_DIGEST_LENGTH == 32

\* enum BL_Kind. The values are 32-bit unsigned and two of them exceed the
\* integers TLC computes with, so a value is written as its two 16-bit
\* halves <<high, low>>: 0x0, 0xa1f35c78, 0x95c3a027.
BL_UNKNOWN == <<0, 0>>
BL_HOTPATCHABLE == <<41459, 23672>>
BL_PATCH_APPLIED == <<38339, 40999>>

hotpatch_addr == 134349420

\* sizeof(hotpatch)
hotpatch_len == 18

\* static const char hotpatch[18]: sixteen zero initialisers, the remaining
\* two elements are zero-initialised.
hotpatch == [i \in 1..hotpatch_len |-> 0]

MSG_HOTPATCH_FAILED == "Hotpatch failed. Contact support."
MSG_UNKNOWN_BL == "Unknown bootloader. Contact support."
MSG_CHECK_FAILED == "B/L check failed. Reboot Device!"

Warnings == {MSG_HOTPATCH_FAILED, MSG_UNKNOWN_BL, MSG_CHECK_FAILED}

-----------------------------------------------------------------------------
(* The digests compared in check_bootloader_kind, in source order.         *)

fixed_v1_0_0 ==
    <<241, 60, 226, 40, 192, 187, 43, 219, 197, 107, 220, 181, 244, 86, 147, 103,
      248, 227, 1, 16, 116, 204, 198, 51, 49, 52, 141, 235, 73, 143, 45, 143>>
fixed_v1_0_1 ==
    <<236, 97, 136, 54, 248, 100, 35, 219, 211, 17, 76, 55, 214, 227, 228, 255,
      223, 184, 125, 158, 76, 97, 153, 207, 62, 22, 58, 103, 178, 116, 152, 162>>
fixed_v1_0_3 ==
    <<79, 156, 56, 193, 205, 6, 245, 158, 141, 77, 232, 224, 211, 28, 221, 52,
      200, 49, 68, 210, 223, 85, 12, 65, 46, 0, 43, 75, 53, 189, 79, 179>>
fixed_v1_0_3_signed ==
    <<145, 125, 25, 82, 38, 12, 155, 137, 243, 169, 107, 234, 7, 238, 164, 7,
      74, 253, 204, 14, 140, 221, 93, 6, 78, 54, 134, 139, 221, 104, 186, 125>>
fixed_v1_0_4 ==
    <<252, 78, 92, 77, 194, 229, 18, 123, 104, 20, 163, 246, 148, 36, 201, 54,
      241, 220, 36, 29, 29, 175, 44, 90, 45, 143, 7, 40, 235, 105, 210, 13>>
unpatched_v1_0_0 ==
    <<99, 151, 196, 70, 246, 185, 0, 42, 139, 21, 11, 244, 185, 180, 224, 187,
      102, 128, 14, 208, 153, 184, 129, 202, 73, 112, 1, 57, 176, 85, 159, 16>>
unpatched_v1_0_1 ==
    <<213, 68, 181, 224, 107, 12, 53, 93, 104, 184, 104, 172, 117, 128, 233, 186,
      178, 210, 36, 161, 226, 68, 8, 129, 204, 27, 202, 43, 129, 103, 82, 213>>
unpatched_v1_0_3 ==
    <<90, 165, 94, 105, 241, 217, 170, 80, 77, 230, 15, 175, 34, 190, 147, 203,
      208, 59, 19, 115, 45, 203, 7, 187, 192, 183, 249, 29, 66, 225, 76, 204>>
unpatched_v1_0_3_signed ==
    <<203, 34, 37, 72, 163, 159, 246, 203, 226, 174, 47, 2, 200, 212, 49, 201,
      174, 13, 248, 80, 248, 20, 68, 73, 17, 245, 33, 185, 90, 176, 47, 76>>
unpatched_v1_0_4 ==
    <<119, 11, 48, 170, 160, 190, 136, 78, 232, 98, 24, 89, 245, 208, 85, 67,
      127, 137, 74, 92, 156, 124, 162, 38, 53, 231, 2, 78, 5, 152, 87, 183>>

-----------------------------------------------------------------------------
(* C library.                                                              *)

\* memcmp(a, b, n): 0 when the first n bytes agree, otherwise the sign of
\* the difference of the first pair of bytes that differ (as unsigned char).
RECURSIVE MemcmpFrom(_, _, _, _)
MemcmpFrom(a, b, i, n) ==
    IF i > n THEN 0
    ELSE IF a[i] < b[i] THEN -1
    ELSE IF a[i] > b[i] THEN 1
    ELSE MemcmpFrom(a, b, i + 1, n)

\* Variant: the last byte is left out of the comparison.
memcmp_short(a, b, n) == MemcmpFrom(a, b, 1, n - 1)

memcmp(a, b, n) == MemcmpFrom(a, b, 1, n)

-----------------------------------------------------------------------------
(* check_bootloader_kind                                                   *)

\* The comparisons of check_bootloader_kind in source order, each with the
\* value its "if" returns.
FixedComparisons ==
    << <<fixed_v1_0_0, BL_PATCH_APPLIED>>,
       <<fixed_v1_0_1, BL_PATCH_APPLIED>>,
       <<fixed_v1_0_3, BL_PATCH_APPLIED>>,
       <<fixed_v1_0_3_signed, BL_PATCH_APPLIED>>,
       <<fixed_v1_0_4, BL_PATCH_APPLIED>> >>

UnpatchedComparisons ==
    << <<unpatched_v1_0_0, BL_HOTPATCHABLE>>,
       <<unpatched_v1_0_1, BL_HOTPATCHABLE>>,
       <<unpatched_v1_0_3, BL_HOTPATCHABLE>>,
       <<unpatched_v1_0_3_signed, BL_HOTPATCHABLE>>,
       <<unpatched_v1_0_4, BL_HOTPATCHABLE>> >>

\* Variant: the last comparison repeats the first digest with the other
\* classification.
Comparisons_duplicate ==
    FixedComparisons
    \o SubSeq(UnpatchedComparisons, 1, Len(UnpatchedComparisons) - 1)
    \o << <<fixed_v1_0_0, BL_HOTPATCHABLE>> >>

\* Variant: the last comparison of the chain is missing.
Comparisons_missing_last ==
    FixedComparisons \o SubSeq(UnpatchedComparisons, 1, Len(UnpatchedComparisons) - 1)

Comparisons == FixedComparisons \o UnpatchedComparisons

\* The chain "if (0 == memcmp(bl_hash, digest, 32)) return kind;" from the
\* i-th comparison of tbl on, ending in "return BL_UNKNOWN;".
RECURSIVE CompareFrom(_, _, _)
CompareFrom(h, tbl, i) ==
    IF i > Len(tbl) THEN BL_UNKNOWN
    ELSE IF 0 = memcmp(h, tbl[i][1], 32) THEN tbl[i][2]
    ELSE CompareFrom(h, tbl, i + 1)

\* Variant: the returned length is not tested.
check_bootloader_kind_nolen(len, h) == CompareFrom(h, Comparisons, 1)

\* check_bootloader_kind, given what memory_bootloader_hash returned (len)
\* and left in bl_hash (h).
check_bootloader_kind(len, h) ==
    IF 32 # len THEN BL_UNKNOWN
    ELSE CompareFrom(h, Comparisons, 1)

-----------------------------------------------------------------------------
(* Inputs: what memory_bootloader_hash may deliver.                        *)

\* The digests the source comments call "Fixed bootloaders" and
\* "Unpatched bootloaders".
FixedDigests ==
    {fixed_v1_0_0, fixed_v1_0_1, fixed_v1_0_3, fixed_v1_0_3_signed, fixed_v1_0_4}

UnpatchedDigests ==
    {unpatched_v1_0_0, unpatched_v1_0_1, unpatched_v1_0_3,
     unpatched_v1_0_3_signed, unpatched_v1_0_4}

Allowlist == FixedDigests \cup UnpatchedDigests

ZeroDigest == [i \in 1..SHA256_DIGEST_LENGTH |-> 0]

\* d with the byte at position p changed.
Mutate(d, p) == [d EXCEPT ![p] = (d[p] + 1) % 256]

\* Every allowlisted digest, every digest one byte away from one of them
\* (one per byte position), and the all-zero content of the static buffer.
InputDigests ==
    Allowlist
    \cup {Mutate(d, p) : d \in Allowlist, p \in 1..SHA256_DIGEST_LENGTH}
    \cup {ZeroDigest}

\* Values memory_bootloader_hash may return.
HashLens == {0, 16, 31, 32, 33}

-----------------------------------------------------------------------------
(* Flash.                                                                  *)

PatchOffsets == 0..(hotpatch_len - 1)

PatchRegion == hotpatch_addr..(hotpatch_addr + hotpatch_len - 1)

FlashAddrs == (hotpatch_addr - Margin)..(hotpatch_addr + hotpatch_len - 1 + Margin)

\* Sets of at most k offsets of the patch region.
RECURSIVE OffsetSetsUpTo(_)
OffsetSetsUpTo(k) ==
    IF k = 0 THEN {{}}
    ELSE LET P == OffsetSetsUpTo(k - 1)
         IN  P \cup {S \cup {i} : S \in P, i \in PatchOffsets}

\* Outcomes of one flash_program call: the offsets whose byte is not
\* programmed. Few bytes fail, or all of them do.
FailSets == OffsetSetsUpTo(MaxFail) \cup {PatchOffsets}

\* Non-zero byte values flash may hold before the check.
FlashVals == {1, 255}

\* Flash before the check: the bytes around the region hold v; the region
\* holds v except at the offsets in Z, which are already zero.
InitFlashes ==
    {[a \in FlashAddrs |->
        IF a \in PatchRegion /\ (a - hotpatch_addr) \in Z THEN 0 ELSE v]
     : v \in FlashVals, Z \in FailSets}

\* The n bytes of flash at addr, as memcmp reads them.
FlashRead(fl, addr, n) == [i \in 1..n |-> fl[addr + i - 1]]

\* Variant: the write starts one byte before the address.
flash_program_shifted(fl, address, data, len, writable, fail) ==
    [a \in DOMAIN fl |->
        IF /\ a >= address - 1
           /\ a < address - 1 + len
           /\ writable
           /\ (a - address + 1) \notin fail
        THEN data[a - address + 2]
        ELSE fl[a]]

\* Variant: a byte whose programming fails is left erased (0xFF).
flash_program_erasing(fl, address, data, len, writable, fail) ==
    [a \in DOMAIN fl |->
        IF a >= address /\ a < address + len /\ writable
        THEN IF (a - address) \in fail THEN 255 ELSE data[a - address + 1]
        ELSE fl[a]]

\* flash_program(address, data, len): programs data byte by byte. A byte is
\* programmed only when flash is unlocked and its sector is writable, and
\* when the hardware does not fail on it (offset in fail).
flash_program(fl, address, data, len, writable, fail) ==
    [a \in DOMAIN fl |->
        IF /\ a >= address
           /\ a < address + len
           /\ writable
           /\ (a - address) \notin fail
        THEN data[a - address + 1]
        ELSE fl[a]]

-----------------------------------------------------------------------------
(* Initial state: check_bootloader is about to run. Flash is locked and    *)
(* the bootloader sectors are read-only, which is what apply_hotpatch      *)
(* expects ("Enable writing to the read-only sectors").                    *)

Init ==
    /\ pc = "check_bootloader"
    /\ hash_len = -1
    /\ bl_hash = ZeroDigest
    /\ kind = BL_UNKNOWN
    /\ flash \in InitFlashes
    /\ flash_locked = TRUE
    /\ sectors_ro = TRUE
    /\ status_flags = FALSE
    /\ patched = FALSE
    /\ log = <<>>
    /\ err_reported = FALSE
    /\ first_call = << >>

-----------------------------------------------------------------------------
(* check_bootloader                                                        *)

\* enum BL_Kind kind = check_bootloader_kind();
\* memory_bootloader_hash fills bl_hash and returns a length.
CheckBootloaderKind ==
    /\ pc = "check_bootloader"
    /\ \E len \in HashLens, h \in InputDigests :
          /\ hash_len' = len
          /\ bl_hash' = h
          /\ kind' = check_bootloader_kind(len, h)
    /\ pc' = "branch"
    /\ UNCHANGED <<err_reported, first_call>>
    /\ UNCHANGED <<flash, flash_locked, sectors_ro, status_flags, patched, log>>

\* Variant: the tests of the first two branches are exchanged.
check_bootloader_branch_swapped(k) ==
    IF k = BL_UNKNOWN THEN "apply_hotpatch"
    ELSE IF k = BL_HOTPATCHABLE THEN "warn_unknown"
    ELSE IF k = BL_PATCH_APPLIED THEN "returned"
    ELSE "warn_check_failed"

\* Variant: the third branch is a plain else, and there is no fourth.
check_bootloader_branch_open(k) ==
    IF k = BL_HOTPATCHABLE THEN "apply_hotpatch"
    ELSE IF k = BL_UNKNOWN THEN "warn_unknown"
    ELSE "returned"

\* The if / else if chain of check_bootloader: where control goes for kind k.
check_bootloader_branch(k) ==
    IF k = BL_HOTPATCHABLE THEN "apply_hotpatch"
    ELSE IF k = BL_UNKNOWN THEN "warn_unknown"
    ELSE IF k = BL_PATCH_APPLIED THEN "returned"
    ELSE "warn_check_failed"

CheckBootloaderBranch ==
    /\ pc = "branch"
    /\ pc' = check_bootloader_branch(kind)
    /\ UNCHANGED <<err_reported, first_call>>
    /\ UNCHANGED <<hash_len, bl_hash, kind, flash, flash_locked, sectors_ro,
                   status_flags, patched, log>>

-----------------------------------------------------------------------------
(* apply_hotpatch                                                          *)

\* Entry of apply_hotpatch.
ApplyHotpatch ==
    /\ pc = "apply_hotpatch"
    /\ pc' = "memory_unlock"
    /\ log' = Append(log, "apply_hotpatch")
    /\ UNCHANGED <<err_reported, first_call>>
    /\ UNCHANGED <<hash_len, bl_hash, kind, flash, flash_locked, sectors_ro,
                   status_flags, patched>>

\* memory_unlock();
MemoryUnlock ==
    /\ pc = "memory_unlock"
    /\ sectors_ro' = FALSE
    /\ pc' = "flash_unlock"
    /\ log' = Append(log, "memory_unlock")
    /\ UNCHANGED <<err_reported, first_call>>
    /\ UNCHANGED <<hash_len, bl_hash, kind, flash, flash_locked, status_flags,
                   patched>>

\* flash_unlock();
FlashUnlock ==
    /\ pc = "flash_unlock"
    /\ flash_locked' = FALSE
    /\ pc' = "flash_program"
    /\ log' = Append(log, "flash_unlock")
    /\ UNCHANGED <<err_reported, first_call>>
    /\ UNCHANGED <<hash_len, bl_hash, kind, flash, sectors_ro, status_flags,
                   patched>>

\* flash_program((uint32_t)hotpatch_addr, (uint8_t*)hotpatch, sizeof(hotpatch));
\* The hardware may fail on some bytes and may raise its error flag.
FlashProgram ==
    /\ pc = "flash_program"
    /\ \E fail \in FailSets, err \in BOOLEAN :
          /\ flash' = flash_program(flash, hotpatch_addr, hotpatch, hotpatch_len,
                                    ~flash_locked /\ ~sectors_ro, fail)
          /\ status_flags' = err
          /\ err_reported' = (err_reported \/ err)
    /\ pc' = "flash_lock"
    /\ log' = Append(log, "flash_program")
    /\ UNCHANGED first_call
    /\ UNCHANGED <<hash_len, bl_hash, kind, flash_locked, sectors_ro, patched>>

\* Variant: the call of flash_lock is missing.
FlashLock_missing ==
    /\ pc = "flash_lock"
    /\ pc' = "flash_clear_status_flags"
    /\ UNCHANGED <<err_reported, first_call>>
    /\ UNCHANGED <<hash_len, bl_hash, kind, flash, flash_locked, sectors_ro,
                   status_flags, patched, log>>

\* Variant: flash_lock and flash_clear_status_flags are skipped when
\* flash_program raised the error flag.
FlashLock_unless_error ==
    /\ pc = "flash_lock"
    /\ IF status_flags
       THEN pc' = "verify" /\ UNCHANGED <<flash_locked, log>>
       ELSE /\ flash_locked' = TRUE
            /\ pc' = "flash_clear_status_flags"
            /\ log' = Append(log, "flash_lock")
    /\ UNCHANGED <<err_reported, first_call>>
    /\ UNCHANGED <<hash_len, bl_hash, kind, flash, sectors_ro, status_flags,
                   patched>>

\* flash_lock();
FlashLock ==
    /\ pc = "flash_lock"
    /\ flash_locked' = TRUE
    /\ pc' = "flash_clear_status_flags"
    /\ log' = Append(log, "flash_lock")
    /\ UNCHANGED <<err_reported, first_call>>
    /\ UNCHANGED <<hash_len, bl_hash, kind, flash, sectors_ro, status_flags,
                   patched>>

\* flash_clear_status_flags();
FlashClearStatusFlags ==
    /\ pc = "flash_clear_status_flags"
    /\ status_flags' = FALSE
    /\ pc' = "verify"
    /\ log' = Append(log, "flash_clear_status_flags")
    /\ UNCHANGED <<err_reported, first_call>>
    /\ UNCHANGED <<hash_len, bl_hash, kind, flash, flash_locked, sectors_ro,
                   patched>>

\* Variant: the result is the hardware status instead of the read-back.
HotpatchVerify_by_status ==
    /\ pc = "verify"
    /\ patched' = ~status_flags
    /\ pc' = "hotpatch_returned"
    /\ UNCHANGED <<err_reported, first_call>>
    /\ UNCHANGED <<hash_len, bl_hash, kind, flash, flash_locked, sectors_ro,
                   status_flags, log>>

\* Variant: the result is false whenever flash_program raised the error flag.
HotpatchVerify_and_status ==
    /\ pc = "verify"
    /\ patched' = (/\ ~err_reported
                   /\ memcmp(FlashRead(flash, hotpatch_addr, hotpatch_len),
                             hotpatch, hotpatch_len) = 0)
    /\ pc' = "hotpatch_returned"
    /\ UNCHANGED <<err_reported, first_call>>
    /\ UNCHANGED <<hash_len, bl_hash, kind, flash, flash_locked, sectors_ro,
                   status_flags, log>>

\* return memcmp((void*)hotpatch_addr, hotpatch, sizeof(hotpatch)) == 0;
HotpatchVerify ==
    /\ pc = "verify"
    /\ patched' = (memcmp(FlashRead(flash, hotpatch_addr, hotpatch_len),
                          hotpatch, hotpatch_len) = 0)
    /\ pc' = "hotpatch_returned"
    /\ UNCHANGED <<err_reported, first_call>>
    /\ UNCHANGED <<hash_len, bl_hash, kind, flash, flash_locked, sectors_ro,
                   status_flags, log>>

\* Variant: the negation of the test is missing.
hotpatch_result_branch_inverted(ok) ==
    IF ok THEN "warn_hotpatch_failed" ELSE "returned"

\* Variant: a failed hotpatch is attempted again.
hotpatch_result_branch_retry(ok) ==
    IF ~ok THEN "apply_hotpatch" ELSE "returned"

\* Variant: after a failed hotpatch the if / else if chain is entered again.
hotpatch_result_branch_reenter(ok) ==
    IF ~ok THEN "branch" ELSE "returned"

\* Variant: the result of apply_hotpatch is not tested.
hotpatch_result_branch_ignored(ok) == "returned"

\* if (!apply_hotpatch()) { ... }
hotpatch_result_branch(ok) ==
    IF ~ok THEN "warn_hotpatch_failed" ELSE "returned"

HotpatchResult ==
    /\ pc = "hotpatch_returned"
    /\ pc' = hotpatch_result_branch(patched)
    /\ UNCHANGED <<err_reported, first_call>>
    /\ UNCHANGED <<hash_len, bl_hash, kind, flash, flash_locked, sectors_ro,
                   status_flags, patched, log>>

-----------------------------------------------------------------------------
(* Warning and halt.                                                       *)

WarnSites == {"warn_hotpatch_failed", "warn_unknown", "warn_check_failed"}

\* Variant: the literals of the first two call sites are exchanged.
WarningAt_swapped(site) ==
    CASE site = "warn_hotpatch_failed" -> MSG_UNKNOWN_BL
      [] site = "warn_unknown" -> MSG_HOTPATCH_FAILED
      [] site = "warn_check_failed" -> MSG_CHECK_FAILED

\* The literal passed to layout_warning_static at each call site.
WarningAt(site) ==
    CASE site = "warn_hotpatch_failed" -> MSG_HOTPATCH_FAILED
      [] site = "warn_unknown" -> MSG_UNKNOWN_BL
      [] site = "warn_check_failed" -> MSG_CHECK_FAILED

\* layout_warning_static("...");
LayoutWarningStatic ==
    /\ pc \in WarnSites
    /\ log' = Append(log, WarningAt(pc))
    /\ pc' = "system_halt"
    /\ UNCHANGED <<err_reported, first_call>>
    /\ UNCHANGED <<hash_len, bl_hash, kind, flash, flash_locked, sectors_ro,
                   status_flags, patched>>

\* Variant: system_halt returns.
SystemHalt_returns ==
    /\ pc = "system_halt"
    /\ log' = Append(log, "system_halt")
    /\ pc' = "returned"
    /\ UNCHANGED <<err_reported, first_call>>
    /\ UNCHANGED <<hash_len, bl_hash, kind, flash, flash_locked, sectors_ro,
                   status_flags, patched>>

\* system_halt(); never returns.
SystemHalt ==
    /\ pc = "system_halt"
    /\ log' = Append(log, "system_halt")
    /\ pc' = "halted"
    /\ UNCHANGED <<err_reported, first_call>>
    /\ UNCHANGED <<hash_len, bl_hash, kind, flash, flash_locked, sectors_ro,
                   status_flags, patched>>

-----------------------------------------------------------------------------
(* Specifications.                                                         *)

GateNext ==
    \/ CheckBootloaderBranch
    \/ ApplyHotpatch
    \/ MemoryUnlock
    \/ FlashUnlock
    \/ FlashProgram
    \/ FlashLock
    \/ FlashClearStatusFlags
    \/ HotpatchVerify
    \/ HotpatchResult
    \/ LayoutWarningStatic
    \/ SystemHalt

Next ==
    \/ CheckBootloaderKind
    \/ GateNext

\* One run of check_bootloader.
Spec == Init /\ [][Next]_vars

\* Values of the enum's 32-bit type that are none of the three enumerators:
\* neighbours of the enumerators and the extremes.
OtherKinds == {<<0, 1>>, <<41459, 23673>>, <<38339, 40998>>, <<65535, 65535>>}

\* check_bootloader from the point where kind holds an arbitrary value of
\* its type: the decision of the if / else if chain as a function of kind.
GateInit ==
    /\ pc = "branch"
    /\ hash_len = -1
    /\ bl_hash = ZeroDigest
    /\ kind \in {BL_UNKNOWN, BL_HOTPATCHABLE, BL_PATCH_APPLIED} \cup OtherKinds
    /\ flash \in InitFlashes
    /\ flash_locked = TRUE
    /\ sectors_ro = TRUE
    /\ status_flags = FALSE
    /\ patched = FALSE
    /\ log = <<>>
    /\ err_reported = FALSE
    /\ first_call = << >>

GateSpec == GateInit /\ [][GateNext]_vars

\* apply_hotpatch invoked a second time on the flash the first invocation
\* left, by a caller that keeps the first result.
Reinvoke ==
    /\ pc = "hotpatch_returned"
    /\ first_call = << >>
    /\ first_call' = <<[ret |-> patched, flash |-> flash]>>
    /\ pc' = "apply_hotpatch"
    /\ UNCHANGED <<hash_len, bl_hash, kind, flash, flash_locked, sectors_ro,
                   status_flags, patched, log, err_reported>>

TwiceInit ==
    /\ pc = "apply_hotpatch"
    /\ hash_len = -1
    /\ bl_hash = ZeroDigest
    /\ kind = BL_HOTPATCHABLE
    /\ flash \in InitFlashes
    /\ flash_locked = TRUE
    /\ sectors_ro = TRUE
    /\ status_flags = FALSE
    /\ patched = FALSE
    /\ log = <<>>
    /\ err_reported = FALSE
    /\ first_call = << >>

TwiceNext ==
    \/ ApplyHotpatch
    \/ MemoryUnlock
    \/ FlashUnlock
    \/ FlashProgram
    \/ FlashLock
    \/ FlashClearStatusFlags
    \/ HotpatchVerify
    \/ Reinvoke

\* Two invocations of apply_hotpatch in a row.
TwiceSpec == TwiceInit /\ [][TwiceNext]_vars

\* check_bootloader_kind alone, applied to every input, on a flash whose
\* patch region already holds the payload.
KindInit ==
    /\ Init
    /\ \A a \in PatchRegion : flash[a] = 0

KindSpec == KindInit /\ [][CheckBootloaderKind]_vars

-----------------------------------------------------------------------------
(* Vocabulary of the properties.                                           *)

InLog(e) == \E i \in 1..Len(log) : log[i] = e

IsPrefix(s, t) == Len(s) <= Len(t) /\ SubSeq(t, 1, Len(s)) = s

IsWarning(e) == e \in Warnings

IsFlashControl(e) ==
    e \in {"flash_unlock", "flash_program", "flash_lock", "flash_clear_status_flags"}

\* The warnings shown so far, and the flash-control calls made so far.
WarningsShown == SelectSeq(log, IsWarning)

FlashControlCalls == SelectSeq(log, IsFlashControl)

FlashControlOrder ==
    <<"flash_unlock", "flash_program", "flash_lock", "flash_clear_status_flags">>

\* How often e has been called so far.
Count(e) == Cardinality({i \in 1..Len(log) : log[i] = e})

\* The stage of the gate a position belongs to, in the order of one pass:
\* Start, Classified, inside apply_hotpatch, the result test, warning, halt,
\* terminal.
PcRank(p) ==
    CASE p = "check_bootloader" -> 0
      [] p = "branch" -> 1
      [] p = "apply_hotpatch" -> 2
      [] p = "memory_unlock" -> 3
      [] p = "flash_unlock" -> 4
      [] p = "flash_program" -> 5
      [] p = "flash_lock" -> 6
      [] p = "flash_clear_status_flags" -> 7
      [] p = "verify" -> 8
      [] p = "hotpatch_returned" -> 9
      [] p \in WarnSites -> 10
      [] p = "system_halt" -> 11
      [] p \in {"returned", "halted"} -> 12

\* Terminal positions: back in the caller, or stopped in system_halt.
Continue == pc = "returned"

Halted == pc = "halted"

\* kind holds the classification (check_bootloader_kind has returned).
Classified == pc # "check_bootloader"

\* apply_hotpatch has been entered and has returned.
HotpatchReturned ==
    /\ InLog("apply_hotpatch")
    /\ pc \in {"hotpatch_returned", "warn_hotpatch_failed", "system_halt",
               "halted", "returned"}

\* The patch region of flash holds the payload, byte for byte.
RegionIsPayload ==
    \A i \in 1..hotpatch_len : flash[hotpatch_addr + i - 1] = hotpatch[i]

-----------------------------------------------------------------------------
(* Properties.                                                             *)

\* C1: fail-closed gate. Control is back in the caller only if the
\* classification is BL_PATCH_APPLIED, or it is BL_HOTPATCHABLE and
\* apply_hotpatch ran and returned true; a run that has stopped anywhere
\* else has stopped in system_halt.
C1_FailClosed ==
    /\ Continue =>
          \/ kind = BL_PATCH_APPLIED
          \/ kind = BL_HOTPATCHABLE /\ HotpatchReturned /\ patched
    /\ Continue => kind = check_bootloader_kind(hash_len, bl_hash)
    /\ ~ENABLED Next =>
          \/ Continue
          \/ Halted /\ log[Len(log)] = "system_halt"

C1_Witness == Continue /\ kind = BL_HOTPATCHABLE /\ patched

\* C2: apply_hotpatch is invoked if and only if check_bootloader_kind
\* returned BL_HOTPATCHABLE: an invocation implies that classification, and a
\* finished run with that classification has invoked it.
C2_HotpatchIffRepairable ==
    /\ InLog("apply_hotpatch") =>
          /\ kind = BL_HOTPATCHABLE
          /\ check_bootloader_kind(hash_len, bl_hash) = BL_HOTPATCHABLE
    /\ (Classified /\ kind \in {BL_PATCH_APPLIED, BL_UNKNOWN}) =>
          ~InLog("apply_hotpatch") /\ pc # "apply_hotpatch"
    /\ ((Continue \/ Halted) /\ kind = BL_HOTPATCHABLE) => InLog("apply_hotpatch")

C2_Witness == Halted /\ kind = BL_HOTPATCHABLE /\ InLog("apply_hotpatch")

\* C3: with length 32 and an allowlisted digest in bl_hash, the
\* classification is BL_PATCH_APPLIED for each of the 5 fixed digests and
\* BL_HOTPATCHABLE for each of the 5 unpatched digests.
C3_AllowlistClassified ==
    (Classified /\ hash_len = 32) =>
        /\ bl_hash = fixed_v1_0_0 => kind = BL_PATCH_APPLIED
        /\ bl_hash = fixed_v1_0_1 => kind = BL_PATCH_APPLIED
        /\ bl_hash = fixed_v1_0_3 => kind = BL_PATCH_APPLIED
        /\ bl_hash = fixed_v1_0_3_signed => kind = BL_PATCH_APPLIED
        /\ bl_hash = fixed_v1_0_4 => kind = BL_PATCH_APPLIED
        /\ bl_hash = unpatched_v1_0_0 => kind = BL_HOTPATCHABLE
        /\ bl_hash = unpatched_v1_0_1 => kind = BL_HOTPATCHABLE
        /\ bl_hash = unpatched_v1_0_3 => kind = BL_HOTPATCHABLE
        /\ bl_hash = unpatched_v1_0_3_signed => kind = BL_HOTPATCHABLE
        /\ bl_hash = unpatched_v1_0_4 => kind = BL_HOTPATCHABLE

C3_Witness ==
    /\ pc = "branch"
    /\ hash_len = 32
    /\ bl_hash = unpatched_v1_0_4
    /\ kind = BL_HOTPATCHABLE

\* C4: a 32-byte digest that is not byte for byte one of the allowlisted
\* digests is classified BL_UNKNOWN.
C4_UnlistedIsUnknown ==
    (Classified /\ hash_len = 32 /\ bl_hash \notin Allowlist) => kind = BL_UNKNOWN

C4_Witness ==
    /\ pc = "branch"
    /\ hash_len = 32
    /\ bl_hash = Mutate(unpatched_v1_0_0, SHA256_DIGEST_LENGTH)
    /\ kind = BL_UNKNOWN

\* C5: a digest length other than 32 is classified BL_UNKNOWN whatever the
\* buffer holds.
C5_BadLengthIsUnknown ==
    (Classified /\ hash_len # 32) => kind = BL_UNKNOWN

C5_Witness ==
    /\ pc = "branch"
    /\ hash_len = 16
    /\ bl_hash = fixed_v1_0_0
    /\ kind = BL_UNKNOWN

\* C6: with classification BL_UNKNOWN the gate makes no patch call, shows
\* "Unknown bootloader. Contact support." and then calls system_halt: the
\* warning is the only call before system_halt.
C6_UnknownWarnsThenHalts ==
    (Classified /\ pc # "branch" /\ kind = BL_UNKNOWN) =>
        /\ pc \in {"warn_unknown", "system_halt", "halted"}
        /\ pc = "warn_unknown" => log = <<>>
        /\ pc = "system_halt" => log = <<MSG_UNKNOWN_BL>>
        /\ pc = "halted" => log = <<MSG_UNKNOWN_BL, "system_halt">>

C6_Witness ==
    /\ Halted
    /\ kind = BL_UNKNOWN
    /\ hash_len = 32
    /\ log = <<MSG_UNKNOWN_BL, "system_halt">>

\* C7: with classification BL_HOTPATCHABLE, once apply_hotpatch has
\* returned: if the patch region differs from the payload the gate shows
\* "Hotpatch failed. Contact support." and then halts, and if it equals the
\* payload the gate shows no warning and returns to the caller.
C7_ReadBackDecides ==
    (HotpatchReturned /\ kind = BL_HOTPATCHABLE) =>
        /\ ~RegionIsPayload =>
              /\ pc \in {"hotpatch_returned", "warn_hotpatch_failed",
                         "system_halt", "halted"}
              /\ IsPrefix(WarningsShown, <<MSG_HOTPATCH_FAILED>>)
              /\ pc \in {"system_halt", "halted"} =>
                    WarningsShown = <<MSG_HOTPATCH_FAILED>>
              /\ InLog("system_halt") =>
                    log[Len(log) - 1] = MSG_HOTPATCH_FAILED
        /\ RegionIsPayload =>
              /\ pc \in {"hotpatch_returned", "returned"}
              /\ WarningsShown = <<>>
              /\ ~InLog("system_halt")

C7_Witness ==
    /\ Halted
    /\ kind = BL_HOTPATCHABLE
    /\ ~RegionIsPayload
    /\ WarningsShown = <<MSG_HOTPATCH_FAILED>>

\* C8: for a value of kind that is none of the three enumerators the gate
\* makes no patch call, shows "B/L check failed. Reboot Device!" and then
\* calls system_halt; it never returns to the caller.
C8_DefensiveDefault ==
    (kind \notin {BL_HOTPATCHABLE, BL_UNKNOWN, BL_PATCH_APPLIED}) =>
        /\ pc \in {"branch", "warn_check_failed", "system_halt", "halted"}
        /\ pc \in {"branch", "warn_check_failed"} => log = <<>>
        /\ pc = "system_halt" => log = <<MSG_CHECK_FAILED>>
        /\ pc = "halted" => log = <<MSG_CHECK_FAILED, "system_halt">>

C8_Witness ==
    /\ Halted
    /\ kind \in OtherKinds
    /\ log = <<MSG_CHECK_FAILED, "system_halt">>

\* C9: the flash-control calls of apply_hotpatch are made in the order
\* flash_unlock, flash_program, flash_lock, flash_clear_status_flags: at any
\* point the calls made are a prefix of that order, and once apply_hotpatch
\* has returned all four have been made exactly once, whatever flash_program
\* reported and whatever the read-back found.
C9_FlashControlOrder ==
    /\ IsPrefix(FlashControlCalls, FlashControlOrder)
    /\ HotpatchReturned => FlashControlCalls = FlashControlOrder
    /\ pc = "flash_clear_status_flags" => InLog("flash_lock")

C9_Witness ==
    /\ Halted
    /\ ~patched
    /\ FlashControlCalls = FlashControlOrder

\* C10: at every return from apply_hotpatch the protections it lifted are
\* back in place: flash is locked and the sectors are read-only, as before
\* the call.
C10_ProtectionRestored ==
    HotpatchReturned => (flash_locked /\ sectors_ro)

\* C11: apply_hotpatch returns true if and only if the patch region of
\* flash equals the payload byte for byte after the write; the result is
\* that of the read-back whether or not flash_program raised the error flag.
C11_ResultIsReadBack ==
    HotpatchReturned => (patched <=> RegionIsPayload)

C11_Witness ==
    /\ pc = "hotpatch_returned"
    /\ patched
    /\ RegionIsPayload
    /\ err_reported

\* C12: idempotence. When a first invocation of apply_hotpatch returned
\* true, a second invocation on the flash it left returns true as well and
\* leaves flash as the first invocation left it.
C12_Idempotent ==
    (pc = "hotpatch_returned" /\ Len(first_call) = 1 /\ first_call[1].ret) =>
        /\ patched
        /\ flash = first_call[1].flash

C12_Witness ==
    /\ pc = "hotpatch_returned"
    /\ Len(first_call) = 1
    /\ first_call[1].ret
    /\ patched
    /\ err_reported

\* C13: no retry. In a run of check_bootloader apply_hotpatch is invoked at
\* most once and flash_program is called at most once; after a failed
\* verification the only calls that follow are the warning and system_halt.
C13_NoRetry ==
    /\ Count("apply_hotpatch") <= 1
    /\ Count("flash_program") <= 1
    /\ (HotpatchReturned /\ ~patched) =>
          /\ pc \in {"hotpatch_returned", "warn_hotpatch_failed", "system_halt",
                     "halted"}
          /\ IsPrefix(<<"apply_hotpatch", "memory_unlock", "flash_unlock",
                        "flash_program", "flash_lock", "flash_clear_status_flags">>,
                      log)
          /\ IsPrefix(log,
                      <<"apply_hotpatch", "memory_unlock", "flash_unlock",
                        "flash_program", "flash_lock", "flash_clear_status_flags",
                        MSG_HOTPATCH_FAILED, "system_halt">>)

C13_Witness ==
    /\ Halted
    /\ ~patched
    /\ Count("apply_hotpatch") = 1
    /\ Count("flash_program") = 1
    /\ err_reported

\* C14: a run ends either back in the caller with no warning shown and
\* system_halt never called, or in system_halt with exactly one warning
\* shown right before it; no run shows a warning and returns, and no run
\* halts without a warning.
C14_SilentOrHalted ==
    /\ Len(WarningsShown) <= 1
    /\ Continue => (WarningsShown = <<>> /\ ~InLog("system_halt"))
    /\ InLog("system_halt") =>
          /\ Halted
          /\ Count("system_halt") = 1
          /\ Len(WarningsShown) = 1
          /\ log[Len(log)] = "system_halt"
          /\ IsWarning(log[Len(log) - 1])
    /\ Halted => InLog("system_halt")
    /\ ~ENABLED Next => (Continue \/ Halted)

C14_Witness ==
    /\ Continue
    /\ kind = BL_PATCH_APPLIED
    /\ log = <<>>

\* C15: single pass. Every step moves the gate forward in the order Start,
\* Classified, (apply_hotpatch), Continue or Halted, so no position is
\* visited twice; the classification is made once; a run stops only in
\* Continue or Halted; and once system_halt has been called the gate is
\* halted for good: no step follows, so nothing returns to the caller and no
\* flash or display call is made.
C15_SinglePass ==
    /\ [][PcRank(pc) < PcRank(pc')]_vars
    /\ [][Classified => kind' = kind]_vars
    /\ [][~InLog("system_halt")]_vars
    /\ [](InLog("system_halt") => Halted)
    /\ [](PcRank(pc) = 12 \/ ENABLED Next)

C15_Witness ==
    /\ Halted
    /\ kind = BL_UNKNOWN
    /\ hash_len = 0
    /\ InLog("system_halt")

\* C16: the read-back of apply_hotpatch runs after flash_lock and
\* flash_clear_status_flags: when the comparison is made the last two calls
\* were those, flash is locked and the error flag is clear, and flash is
\* locked at every point after apply_hotpatch returned.
C16_VerifyAfterLock ==
    /\ pc = "verify" =>
          /\ flash_locked
          /\ ~status_flags
          /\ Len(log) >= 2
          /\ log[Len(log) - 1] = "flash_lock"
          /\ log[Len(log)] = "flash_clear_status_flags"
    /\ HotpatchReturned => flash_locked

C16_Witness ==
    /\ pc = "hotpatch_returned"
    /\ flash_locked
    /\ ~patched
    /\ ~err_reported

\* Orders in which the comparisons may be written: tbl rearranged by the
\* permutation f of its indices.
Permuted(tbl, f) == [i \in 1..Len(tbl) |-> tbl[f[i]]]

Transposition(i, j, n) ==
    [k \in 1..n |-> IF k = i THEN j ELSE IF k = j THEN i ELSE k]

Rotation(r, n) == [k \in 1..n |-> ((k - 1 + r) % n) + 1]

Reversal(n) == [k \in 1..n |-> n + 1 - k]

\* The permutations tried: every exchange of two comparisons, every
\* rotation of the chain, and the chain reversed.
Orders ==
    LET n == Len(Comparisons)
    IN  {Transposition(i, j, n) : i \in 1..n, j \in 1..n}
        \cup {Rotation(r, n) : r \in 0..(n - 1)}
        \cup {Reversal(n)}

\* The comparisons that match h.
Matches(h) == {i \in 1..Len(Comparisons) : memcmp(h, Comparisons[i][1], 32) = 0}

\* C17: the digests compared are pairwise distinct, so at most one
\* comparison matches a digest and the classification is the value of that
\* comparison (BL_UNKNOWN when none matches), whatever the order of the
\* comparisons: the chain rearranged by any of the permutations tried gives
\* the same result.
C17_OrderIrrelevant ==
    /\ \A i, j \in 1..Len(Comparisons) :
          i # j => Comparisons[i][1] # Comparisons[j][1]
    /\ (pc = "branch" /\ hash_len = 32) =>
          /\ Cardinality(Matches(bl_hash)) <= 1
          /\ \A i \in Matches(bl_hash) : kind = Comparisons[i][2]
          /\ Matches(bl_hash) = {} => kind = BL_UNKNOWN
          /\ \A f \in Orders :
                CompareFrom(bl_hash, Permuted(Comparisons, f), 1) = kind

C17_Witness ==
    /\ pc = "branch"
    /\ hash_len = 32
    /\ bl_hash = fixed_v1_0_4
    /\ kind = BL_PATCH_APPLIED
    /\ CompareFrom(bl_hash, Permuted(Comparisons, Reversal(Len(Comparisons))), 1)
          = BL_PATCH_APPLIED

\* C18: frame. No step changes a flash byte outside the 18 bytes at
\* hotpatch_addr; and with classification BL_PATCH_APPLIED or BL_UNKNOWN no
\* step changes flash at all, no unlock, program, lock or clear-flags call
\* is made, and the protections stay as they were.
C18_Frame ==
    /\ [][\A a \in FlashAddrs \ PatchRegion : flash'[a] = flash[a]]_vars
    /\ [][kind' \in {BL_PATCH_APPLIED, BL_UNKNOWN} => flash' = flash]_vars
    /\ []((Classified /\ kind \in {BL_PATCH_APPLIED, BL_UNKNOWN}) =>
             /\ FlashControlCalls = <<>>
             /\ ~InLog("memory_unlock")
             /\ ~InLog("apply_hotpatch")
             /\ flash_locked
             /\ sectors_ro)

C18_Witness ==
    /\ Continue
    /\ kind = BL_HOTPATCHABLE
    /\ InLog("flash_program")
    /\ RegionIsPayload
    /\ \A a \in FlashAddrs \ PatchRegion : flash[a] = 255
    /\ ~err_reported

\* C19: when check_bootloader is back in the caller after a
\* BL_HOTPATCHABLE classification, the 18 bytes of flash at hotpatch_addr
\* are the all-zero payload.
C19_ContinueImpliesPatched ==
    (Continue /\ kind = BL_HOTPATCHABLE) =>
        \A a \in PatchRegion : flash[a] = 0

C19_Witness ==
    /\ Continue
    /\ kind = BL_HOTPATCHABLE
    /\ hash_len = 32
    /\ bl_hash = unpatched_v1_0_3
    /\ \A a \in PatchRegion : flash[a] = 0
    /\ err_reported

====
